---- MODULE Spec2Model ----
(***************************************************************************)
(* MessagingMessageListFetchJob.handle                                     *)
(* (packages/twenty-server/.../jobs/messaging-message-list-fetch.job.ts).  *)
(*                                                                         *)
(* Every invocation of handle is a process.  handle is an async function:  *)
(* the code between two awaits runs to completion, so there is one action  *)
(* per awaited call: the call settles, and handle runs the synchronous     *)
(* code that follows, up to the next call it awaits.  pc names the call an *)
(* invocation awaits.  The collaborators (monitoring sink, store, refresh  *)
(* service, fetch strategies, failure handler) are the environment: what   *)
(* they return, and whether they reject, is chosen where they settle.      *)
(***************************************************************************)
EXTENDS Integers, Sequences, FiniteSets, TLC

VARIABLES
    now,             \* the clock: the last date read from it (time passes between reads)
    store,           \* messageChannelId -> stored MessageChannel (with its connectedAccount)
    pc,              \* invocation -> position in handle
    data,            \* invocation -> MessagingMessageListFetchJobData
    messageChannel,  \* invocation -> the object findOne returned (Null: not found)
    error,           \* invocation -> the error last thrown in handle (NoError: none)
    trace,           \* invocation -> the calls handle made on its collaborators, in order
    handlerCalls,    \* invocation -> the arguments of each handleDriverException call
    strategyCalls,   \* invocation -> the arguments of each processMessageListFetch call
    outcome          \* invocation -> "pending", "returned" or "threw" (what the queue caller sees)

vars ==
    <<now, store, pc, data, messageChannel, error, trace, handlerCalls, strategyCalls, outcome>>

\* ------------------------------------------------------------------ bounds

MaxTime == 1            \* the dates the clock gives are 0..MaxTime
MaxFailureCount == 1    \* throttleFailureCount stays within 0..MaxFailureCount

\* the inputs of the throttle guard taken on its own (SpecThrottle)
MaxCount == 3           \* throttleFailureCount is drawn from 0..MaxCount
MaxDate == 5            \* the date the guard reads is drawn from 0..MaxDate
MaxStartedAt == 1       \* syncStageStartedAt is null or drawn from 0..MaxStartedAt

\* two invocations of handle, delivered to two workers of the pool: they may
\* overlap in any way, or run one after the other
Invocations == {1, 2}

\* ------------------------------------------------------------- vocabulary

Null == "null"

ChannelIds == {"ch1", "ch2"}        \* "ch1" is stored, "ch2" is not
WorkspaceId == "ws1"

PARTIAL_MESSAGE_LIST_FETCH_PENDING == "PARTIAL_MESSAGE_LIST_FETCH_PENDING"
FULL_MESSAGE_LIST_FETCH_PENDING == "FULL_MESSAGE_LIST_FETCH_PENDING"
MESSAGES_IMPORT_PENDING == "MESSAGES_IMPORT_PENDING"

MessageChannelSyncStage ==
    {PARTIAL_MESSAGE_LIST_FETCH_PENDING, FULL_MESSAGE_LIST_FETCH_PENDING, MESSAGES_IMPORT_PENDING}

\* ConnectedAccountRefreshAccessTokenExceptionCode, as used by the switch
TEMPORARY_NETWORK_ERROR == "TEMPORARY_NETWORK_ERROR"
REFRESH_ACCESS_TOKEN_FAILED == "REFRESH_ACCESS_TOKEN_FAILED"
REFRESH_TOKEN_NOT_FOUND == "REFRESH_TOKEN_NOT_FOUND"
REFRESH_PROVIDER_NOT_SUPPORTED == "PROVIDER_NOT_SUPPORTED"
\* what the switch does not recognize: another code, or an error with no code
UnrecognizedCodes == {"INVALID_REFRESH_TOKEN", "undefined"}

RefreshCodes ==
    {TEMPORARY_NETWORK_ERROR, REFRESH_ACCESS_TOKEN_FAILED, REFRESH_TOKEN_NOT_FOUND,
     REFRESH_PROVIDER_NOT_SUPPORTED} \cup UnrecognizedCodes

\* MessageImportDriverExceptionCode, as used by the switch
TEMPORARY_ERROR == "TEMPORARY_ERROR"
INSUFFICIENT_PERMISSIONS == "INSUFFICIENT_PERMISSIONS"
PROVIDER_NOT_SUPPORTED == "PROVIDER_NOT_SUPPORTED"

FULL_OR_PARTIAL_MESSAGE_LIST_FETCH == "FULL_OR_PARTIAL_MESSAGE_LIST_FETCH"

Messages == {"m1", "m2"}
Tokens == {"t0", "t1"}

\* event names
EvTriggered == "message_list_fetch_job.triggered"
EvChannelNotFound == "message_list_fetch_job.error.message_channel_not_found"
EvInsufficientPermissions == "refresh_token.error.insufficient_permissions"
EvPartialStarted == "partial_message_list_fetch.started"
EvPartialCompleted == "partial_message_list_fetch.completed"
EvFullStarted == "full_message_list_fetch.started"
EvFullCompleted == "full_message_list_fetch.completed"

\* ----------------------------------------------------------------- errors
\* An error object: its class, where it was created (its identity), its code
\* and its message.

\* no error
NoError == [class |-> "none", origin |-> "none", code |-> "none", message |-> "none"]

RefreshError(code, message) ==
    [class |-> "ConnectedAccountRefreshAccessTokenException", origin |-> "refresh",
     code |-> code, message |-> message]

MessageImportDriverException(message, code) ==
    [class |-> "MessageImportDriverException", origin |-> "handle",
     code |-> code, message |-> message]

SinkError ==
    [class |-> "Error", origin |-> "track", code |-> "undefined", message |-> "m1"]

StrategyError(origin, class, code) ==
    [class |-> class, origin |-> origin, code |-> code, message |-> "m1"]

\* what a fetch strategy may reject with: a driver exception of its own or any other error
StrategyErrors(origin) ==
    {StrategyError(origin, "MessageImportDriverException", TEMPORARY_ERROR),
     StrategyError(origin, "Error", "undefined")}

\* ------------------------------------------------------------ pure parts

NullTime == -1          \* syncStageStartedAt: null
ThrottleDuration == 1   \* MESSAGING_THROTTLE_DURATION, in clock units

Pow2(n) == IF n <= 0 THEN 1 ELSE 2 ^ n

\* faulty variant: the comparison with the end of the pause is inverted
isThrottled_InvertedComparison(syncStageStartedAt, throttleFailureCount, date) ==
    IF syncStageStartedAt = NullTime \/ throttleFailureCount = 0
    THEN FALSE
    ELSE date > syncStageStartedAt + ThrottleDuration * Pow2(throttleFailureCount - 1)

\* isThrottled(syncStageStartedAt, throttleFailureCount), with the date it
\* reads from the clock (new Date()) as its third argument
isThrottled(syncStageStartedAt, throttleFailureCount, date) ==
    IF syncStageStartedAt = NullTime \/ throttleFailureCount = 0
    THEN FALSE
    ELSE date < syncStageStartedAt + ThrottleDuration * Pow2(throttleFailureCount - 1)

\* faulty variant: the REFRESH_TOKEN_NOT_FOUND label is missing from the tracking arm
TracksInsufficientPermissions_OneLabel(e) ==
    e.code = REFRESH_ACCESS_TOKEN_FAILED

\* the refresh catch: case arms that track refresh_token.error.insufficient_permissions
TracksInsufficientPermissions(e) ==
    e.code \in {REFRESH_ACCESS_TOKEN_FAILED, REFRESH_TOKEN_NOT_FOUND}

\* faulty variant: the default arm wraps the error instead of rethrowing it
TranslateRefreshError_DefaultWraps(e) ==
    CASE e.code = TEMPORARY_NETWORK_ERROR ->
            MessageImportDriverException(e.message, TEMPORARY_ERROR)
      [] e.code \in {REFRESH_ACCESS_TOKEN_FAILED, REFRESH_TOKEN_NOT_FOUND} ->
            MessageImportDriverException(e.message, INSUFFICIENT_PERMISSIONS)
      [] e.code = REFRESH_PROVIDER_NOT_SUPPORTED ->
            MessageImportDriverException(e.message, PROVIDER_NOT_SUPPORTED)
      [] OTHER -> MessageImportDriverException(e.message, "UNKNOWN")

\* the refresh catch: what switch (error.code) throws for the caught error e
TranslateRefreshError(e) ==
    CASE e.code = TEMPORARY_NETWORK_ERROR ->
            MessageImportDriverException(e.message, TEMPORARY_ERROR)
      [] e.code \in {REFRESH_ACCESS_TOKEN_FAILED, REFRESH_TOKEN_NOT_FOUND} ->
            MessageImportDriverException(e.message, INSUFFICIENT_PERMISSIONS)
      [] e.code = REFRESH_PROVIDER_NOT_SUPPORTED ->
            MessageImportDriverException(e.message, PROVIDER_NOT_SUPPORTED)
      [] OTHER -> e

\* faulty variant: the throttle gate does not return
ThrottleBranch_NoReturn(skip) == "refresh"

\* if (isThrottled(...)) return; (lines 78-85)
ThrottleBranch(skip) == IF skip THEN "done" ELSE "refresh"

\* faulty variant: the partial arm runs the full branch
StageBranch_PartialRunsFull(syncStage) ==
    CASE syncStage = PARTIAL_MESSAGE_LIST_FETCH_PENDING -> "track_full_started"
      [] syncStage = FULL_MESSAGE_LIST_FETCH_PENDING -> "track_full_started"
      [] OTHER -> "done"

\* faulty variant: the full arm runs the partial branch
StageBranch_FullRunsPartial(syncStage) ==
    CASE syncStage = PARTIAL_MESSAGE_LIST_FETCH_PENDING -> "track_partial_started"
      [] syncStage = FULL_MESSAGE_LIST_FETCH_PENDING -> "track_partial_started"
      [] OTHER -> "done"

\* faulty variant: the default arm falls into the full fetch
StageBranch_DefaultRunsFull(syncStage) ==
    CASE syncStage = PARTIAL_MESSAGE_LIST_FETCH_PENDING -> "track_partial_started"
      [] syncStage = FULL_MESSAGE_LIST_FETCH_PENDING -> "track_full_started"
      [] OTHER -> "track_full_started"

\* switch (messageChannel.syncStage): the position the stage sends handle to
StageBranch(syncStage) ==
    CASE syncStage = PARTIAL_MESSAGE_LIST_FETCH_PENDING -> "track_partial_started"
      [] syncStage = FULL_MESSAGE_LIST_FETCH_PENDING -> "track_full_started"
      [] OTHER -> "done"

\* faulty variant: the try block does not cover the awaited calls
InsideTry_Uncaught == "threw"

\* where a rejection inside try { ... } (lines 77-171) goes: the catch of line 172
InsideTry == "catch"
\* where a rejection outside it (lines 47-75) goes: out of handle, to the queue caller
OutsideTry == "threw"

\* the arguments of handleDriverException at lines 173-178, for the caught error e
HandlerArguments(p, e) ==
    [error |-> e,
     syncStep |-> FULL_OR_PARTIAL_MESSAGE_LIST_FETCH,
     messageChannel |-> messageChannel[p],
     workspaceId |-> data[p].workspaceId]

\* the arguments of the partial strategy's processMessageListFetch at lines 132-136
PartialFetchArguments(p) ==
    [strategy |-> "partial",
     messageChannel |-> messageChannel[p],
     connectedAccount |-> messageChannel[p].connectedAccount,
     workspaceId |-> data[p].workspaceId]

\* the arguments of the full strategy's processMessageListFetch at lines 155-158
\* (it reads the connected account through the channel)
FullFetchArguments(p) ==
    [strategy |-> "full",
     messageChannel |-> messageChannel[p],
     connectedAccount |-> messageChannel[p].connectedAccount,
     workspaceId |-> data[p].workspaceId]

\* ---------------------------------------------------------------- state

StoredChannel(id, stage, startedAt, failures) ==
    [id |-> id,
     syncStage |-> stage,
     syncStageStartedAt |-> startedAt,
     throttleFailureCount |-> failures,
     connectedAccountId |-> "acc1",
     connectedAccount |-> [id |-> "acc1", accessToken |-> "t0"]]

NoChannel == [id |-> Null]

Init ==
    /\ now = 0
    /\ \E stage \in MessageChannelSyncStage, startedAt \in {NullTime, 0},
          failures \in 0..MaxFailureCount :
          store = [id \in {"ch1"} |-> StoredChannel(id, stage, startedAt, failures)]
    /\ pc = [p \in Invocations |-> "idle"]
    /\ data = [p \in Invocations |-> [messageChannelId |-> Null, workspaceId |-> Null]]
    /\ messageChannel = [p \in Invocations |-> NoChannel]
    /\ error = [p \in Invocations |-> NoError]
    /\ trace = [p \in Invocations |-> <<>>]
    /\ handlerCalls = [p \in Invocations |-> <<>>]
    /\ strategyCalls = [p \in Invocations |-> <<>>]
    /\ outcome = [p \in Invocations |-> "pending"]

\* ------------------------------------------------------------- helpers

\* one entry of an invocation's trace: a call made on a collaborator ("track":
\* an event handed to the monitoring sink, "call": any other collaborator), the
\* way an awaited call settled ("resolve", "reject" with the error raised), the
\* answer of the throttle guard ("isThrottled": "skip" or "pass"), the access
\* token of the channel findOne returned ("loaded"), the access token
\* refreshAndSaveTokens resolved with ("returned") or the stage the store holds
\* when the stage switch runs ("stored")
Entry(op, name, err) == [op |-> op, name |-> name, err |-> err]

\* the store with the channel's sync fields rewritten
Stored(id, stage, startedAt, failures) ==
    [store EXCEPT ![id].syncStage = stage,
                  ![id].syncStageStartedAt = startedAt,
                  ![id].throttleFailureCount = failures]

\* handle goes on without an error: `entries` is what it did, `label` the call
\* it now awaits ("done": it has returned)
Continue(p, entries, label) ==
    /\ trace' = [trace EXCEPT ![p] = @ \o entries]
    /\ pc' = [pc EXCEPT ![p] = label]
    /\ outcome' = [outcome EXCEPT ![p] = IF label = "done" THEN "returned" ELSE @]
    /\ UNCHANGED <<error, handlerCalls>>

\* an awaited call rejected with e, after handle did `entries`.  Thrown to
\* "catch" (line 172), the error is handed to handleDriverException at once,
\* and handle awaits the handler; thrown to "threw", it leaves handle; thrown
\* to the inner catch (line 93) that awaits a track, handle awaits that track.
Raise(p, entries, e, where) ==
    /\ error' = [error EXCEPT ![p] = e]
    /\ trace' = [trace EXCEPT ![p] =
                    @ \o entries \o
                    (IF where = "catch"
                     THEN <<Entry("call", "handleDriverException", NoError)>>
                     ELSE <<>>)]
    /\ handlerCalls' = [handlerCalls EXCEPT ![p] =
                           IF where = "catch" THEN Append(@, HandlerArguments(p, e)) ELSE @]
    /\ pc' = [pc EXCEPT ![p] = IF where = "catch" THEN "handler" ELSE where]
    /\ outcome' = [outcome EXCEPT ![p] = IF where = "threw" THEN "threw" ELSE @]

\* await this.messagingMonitoringService.track({eventName, ...}) settles: the
\* sink took the event and resolves (handle does `then` and awaits at `next`),
\* or it rejects (the rejection is thrown to `where`)
Track(p, eventName, then, next, where) ==
    \/ Continue(p, <<Entry("track", eventName, NoError)>> \o then, next)
    \/ Raise(p, <<Entry("track", eventName, NoError), Entry("reject", "track", SinkError)>>,
             SinkError, where)

\* ------------------------------------------------------------- actions

\* the queue delivers a job: handle(data) starts and tracks the trigger (lines 46-53)
Start(p) ==
    /\ pc[p] = "idle"
    /\ \E id \in ChannelIds :
          data' = [data EXCEPT ![p] = [messageChannelId |-> id, workspaceId |-> WorkspaceId]]
    /\ Continue(p, <<>>, "track_triggered")
    /\ UNCHANGED <<now, store, messageChannel, strategyCalls>>

\* faulty variant: handle goes to the lookup without tracking the trigger
TrackTriggered_Silent(p) ==
    /\ pc[p] = "track_triggered"
    /\ Continue(p, <<>>, "findOne")
    /\ UNCHANGED <<now, store, data, messageChannel, strategyCalls>>

\* lines 49-58: the trigger event settles; getRepository, findOne is called
TrackTriggered(p) ==
    /\ pc[p] = "track_triggered"
    /\ Track(p, EvTriggered, <<>>, "findOne", OutsideTry)
    /\ UNCHANGED <<now, store, data, messageChannel, strategyCalls>>

\* lines 60-92: findOne resolves; if (!messageChannel) the not-found event is
\* tracked; otherwise the throttle gate reads the clock, and returns or lets
\* the refresh be called
FindOne(p) ==
    /\ pc[p] = "findOne"
    /\ LET id == data[p].messageChannelId
       IN IF id \in DOMAIN store
          THEN \E date \in now..MaxTime :
                  LET skip == isThrottled(store[id].syncStageStartedAt,
                                          store[id].throttleFailureCount, date)
                  IN /\ now' = date
                     /\ messageChannel' = [messageChannel EXCEPT ![p] = store[id]]
                     /\ Continue(p, <<Entry("call", "findOne", NoError),
                                      Entry("loaded", store[id].connectedAccount.accessToken,
                                            NoError),
                                      Entry("isThrottled", IF skip THEN "skip" ELSE "pass",
                                            NoError)>>,
                                 ThrottleBranch(skip))
          ELSE /\ now' = now
               /\ messageChannel' = [messageChannel EXCEPT ![p] = NoChannel]
               /\ Continue(p, <<Entry("call", "findOne", NoError)>>, "track_not_found")
    /\ UNCHANGED <<store, data, strategyCalls>>

\* lines 68-74: the not-found event settles; return
TrackChannelNotFound(p) ==
    /\ pc[p] = "track_not_found"
    /\ Track(p, EvChannelNotFound, <<>>, "done", OutsideTry)
    /\ UNCHANGED <<now, store, data, messageChannel, strategyCalls>>

\* what refreshAndSaveTokens leaves in the store when it resolves with token
SaveTokens(p, token) ==
    LET id == messageChannel[p].id
    IN IF id \in DOMAIN store
       THEN [store EXCEPT ![id].connectedAccount.accessToken = token]
       ELSE store

\* faulty variant: the token is assigned to the account's id
AssignAccessToken_WrongField(p, token) ==
    [messageChannel EXCEPT ![p].connectedAccount.id = token]

\* faulty variant: the refresh is awaited and its result is not assigned
AssignAccessToken_Dropped(p, token) == messageChannel

\* messageChannel.connectedAccount.accessToken = await ... (lines 87-92): the
\* token is written in place, into the object findOne returned
AssignAccessToken(p, token) ==
    [messageChannel EXCEPT ![p].connectedAccount.accessToken = token]

\* faulty variant: the switch reads the stage the store holds now
RefreshResolves_RereadsStage(p) ==
    /\ pc[p] = "refresh"
    /\ \E token \in Tokens :
          /\ messageChannel' = AssignAccessToken(p, token)
          /\ store' = SaveTokens(p, token)
          /\ Continue(p, <<Entry("call", "refreshAndSaveTokens", NoError),
                           Entry("resolve", "refreshAndSaveTokens", NoError),
                           Entry("returned", token, NoError),
                           Entry("stored", store[messageChannel[p].id].syncStage, NoError)>>,
                      StageBranch(store[messageChannel[p].id].syncStage))
    /\ UNCHANGED <<now, data, strategyCalls>>

\* lines 87-92 and 123-171: refreshAndSaveTokens resolves; the token is
\* assigned in place and the stage switch tracks a started event, or breaks.
\* (The "stored" entry keeps what the store holds for the channel's stage when
\* the switch runs; handle does not read it.)
RefreshResolves(p) ==
    /\ pc[p] = "refresh"
    /\ \E token \in Tokens :
          /\ messageChannel' = AssignAccessToken(p, token)
          /\ store' = SaveTokens(p, token)
          /\ Continue(p, <<Entry("call", "refreshAndSaveTokens", NoError),
                           Entry("resolve", "refreshAndSaveTokens", NoError),
                           Entry("returned", token, NoError),
                           Entry("stored", store[messageChannel[p].id].syncStage, NoError)>>,
                      StageBranch(messageChannel[p].syncStage))
    /\ UNCHANGED <<now, data, strategyCalls>>

\* faulty variant: the catch of line 93 logs the error and lets handle go on to the switch
RefreshRejects_Swallowed(p) ==
    /\ pc[p] = "refresh"
    /\ \E code \in RefreshCodes, message \in Messages :
          Continue(p, <<Entry("call", "refreshAndSaveTokens", NoError),
                        Entry("reject", "refreshAndSaveTokens", RefreshError(code, message))>>,
                   StageBranch(messageChannel[p].syncStage))
    /\ UNCHANGED <<now, store, data, messageChannel, strategyCalls>>

\* lines 87-121: refreshAndSaveTokens rejects; the catch translates the error,
\* or first tracks the insufficient-permissions event
RefreshRejects(p) ==
    /\ pc[p] = "refresh"
    /\ \E code \in RefreshCodes, message \in Messages :
          LET e == RefreshError(code, message)
              entries == <<Entry("call", "refreshAndSaveTokens", NoError),
                           Entry("reject", "refreshAndSaveTokens", e)>>
          IN IF TracksInsufficientPermissions(e)
             THEN Raise(p, entries, e, "track_insufficient")
             ELSE Raise(p, entries, TranslateRefreshError(e), InsideTry)
    /\ UNCHANGED <<now, store, data, messageChannel, strategyCalls>>

\* lines 102-112: the insufficient-permissions event settles; the wrapped
\* exception is thrown, or the sink's rejection is
TrackInsufficientPermissions(p) ==
    /\ pc[p] = "track_insufficient"
    /\ \/ Raise(p, <<Entry("track", EvInsufficientPermissions, NoError)>>,
                TranslateRefreshError(error[p]), InsideTry)
       \/ Raise(p, <<Entry("track", EvInsufficientPermissions, NoError),
                     Entry("reject", "track", SinkError)>>,
                SinkError, InsideTry)
    /\ UNCHANGED <<now, store, data, messageChannel, strategyCalls>>

\* faulty variant: the strategy is entered only while no other invocation is inside it
TrackPartialStarted_Locked(p) ==
    /\ pc[p] = "track_partial_started"
    /\ \A q \in Invocations \ {p} : pc[q] # "partial"
    /\ Track(p, EvPartialStarted,
             <<Entry("call", "partial.processMessageListFetch", NoError)>>,
             "partial", InsideTry)
    /\ strategyCalls' =
          [strategyCalls EXCEPT ![p] =
              IF pc'[p] = "partial" THEN Append(@, PartialFetchArguments(p)) ELSE @]
    /\ UNCHANGED <<now, store, data, messageChannel>>

\* lines 125-136: the started event settles; the partial strategy is called
\* with (messageChannel, messageChannel.connectedAccount, workspaceId)
TrackPartialStarted(p) ==
    /\ pc[p] = "track_partial_started"
    /\ Track(p, EvPartialStarted,
             <<Entry("call", "partial.processMessageListFetch", NoError)>>,
             "partial", InsideTry)
    /\ strategyCalls' =
          [strategyCalls EXCEPT ![p] =
              IF pc'[p] = "partial" THEN Append(@, PartialFetchArguments(p)) ELSE @]
    /\ UNCHANGED <<now, store, data, messageChannel>>

\* what a fetch strategy leaves in the store when it resolves: the stage advanced
StrategyCompletes(p) ==
    LET id == messageChannel[p].id
    IN IF id \in DOMAIN store
       THEN Stored(id, MESSAGES_IMPORT_PENDING, NullTime, store[id].throttleFailureCount)
       ELSE store

\* lines 132-136: the partial strategy settles
PartialFetchSettles(p) ==
    /\ pc[p] = "partial"
    /\ \/ /\ Continue(p, <<Entry("resolve", "partial.processMessageListFetch", NoError)>>,
                      "track_partial_completed")
          /\ store' = StrategyCompletes(p)
       \/ /\ \E e \in StrategyErrors("partial") :
                Raise(p, <<Entry("reject", "partial.processMessageListFetch", e)>>,
                      e, InsideTry)
          /\ UNCHANGED store
    /\ UNCHANGED <<now, data, messageChannel, strategyCalls>>

\* faulty variant: the break of line 145 is missing, the partial arm falls into the full arm
TrackPartialCompleted_FallsThrough(p) ==
    /\ pc[p] = "track_partial_completed"
    /\ Track(p, EvPartialCompleted, <<>>, "track_full_started", InsideTry)
    /\ UNCHANGED <<now, store, data, messageChannel, strategyCalls>>

\* lines 138-145: the completed event settles; break
TrackPartialCompleted(p) ==
    /\ pc[p] = "track_partial_completed"
    /\ Track(p, EvPartialCompleted, <<>>, "done", InsideTry)
    /\ UNCHANGED <<now, store, data, messageChannel, strategyCalls>>

\* lines 148-158: the started event settles; the full strategy is called with
\* (messageChannel, workspaceId)
TrackFullStarted(p) ==
    /\ pc[p] = "track_full_started"
    /\ Track(p, EvFullStarted,
             <<Entry("call", "full.processMessageListFetch", NoError)>>,
             "full", InsideTry)
    /\ strategyCalls' =
          [strategyCalls EXCEPT ![p] =
              IF pc'[p] = "full" THEN Append(@, FullFetchArguments(p)) ELSE @]
    /\ UNCHANGED <<now, store, data, messageChannel>>

\* lines 155-158: the full strategy settles
FullFetchSettles(p) ==
    /\ pc[p] = "full"
    /\ \/ /\ Continue(p, <<Entry("resolve", "full.processMessageListFetch", NoError)>>,
                      "track_full_completed")
          /\ store' = StrategyCompletes(p)
       \/ /\ \E e \in StrategyErrors("full") :
                Raise(p, <<Entry("reject", "full.processMessageListFetch", e)>>,
                      e, InsideTry)
          /\ UNCHANGED store
    /\ UNCHANGED <<now, data, messageChannel, strategyCalls>>

\* lines 160-167: the completed event settles; break
TrackFullCompleted(p) ==
    /\ pc[p] = "track_full_completed"
    /\ Track(p, EvFullCompleted, <<>>, "done", InsideTry)
    /\ UNCHANGED <<now, store, data, messageChannel, strategyCalls>>

\* the failure handler's bookkeeping on the channel: one more throttle failure
HandlerBookkeeping(p) ==
    LET id == messageChannel[p].id
    IN IF id \in DOMAIN store /\ store[id].throttleFailureCount < MaxFailureCount
       THEN Stored(id, store[id].syncStage, store[id].syncStageStartedAt,
                   store[id].throttleFailureCount + 1)
       ELSE store

HandlerError ==
    [class |-> "Error", origin |-> "handleDriverException", code |-> "undefined",
     message |-> "m1"]

\* faulty variant: once the handler has resolved, handle tries the refresh again
HandlerSettles_Retries(p) ==
    /\ pc[p] = "handler"
    /\ \/ /\ Continue(p, <<Entry("resolve", "handleDriverException", NoError)>>,
                      IF Len(handlerCalls[p]) < 2 THEN "refresh" ELSE "done")
          /\ store' = HandlerBookkeeping(p)
       \/ /\ Raise(p, <<Entry("reject", "handleDriverException", HandlerError)>>,
                   HandlerError, OutsideTry)
          /\ UNCHANGED store
    /\ UNCHANGED <<now, data, messageChannel, strategyCalls>>

\* lines 173-179: handleDriverException settles; handle returns, or the
\* handler's rejection leaves handle (nothing guards the catch block)
HandlerSettles(p) ==
    /\ pc[p] = "handler"
    /\ \/ /\ Continue(p, <<Entry("resolve", "handleDriverException", NoError)>>, "done")
          /\ store' = HandlerBookkeeping(p)
       \/ /\ Raise(p, <<Entry("reject", "handleDriverException", HandlerError)>>,
                   HandlerError, OutsideTry)
          /\ UNCHANGED store
    /\ UNCHANGED <<now, data, messageChannel, strategyCalls>>

Next ==
    \E p \in Invocations :
          \/ Start(p)
          \/ TrackTriggered(p)
          \/ FindOne(p)
          \/ TrackChannelNotFound(p)
          \/ RefreshResolves(p)
          \/ RefreshRejects(p)
          \/ TrackInsufficientPermissions(p)
          \/ TrackPartialStarted(p)
          \/ PartialFetchSettles(p)
          \/ TrackPartialCompleted(p)
          \/ TrackFullStarted(p)
          \/ FullFetchSettles(p)
          \/ TrackFullCompleted(p)
          \/ HandlerSettles(p)

Spec == Init /\ [][Next]_vars

\* ------------------------------------------- the throttle guard on its own
\* The gate of lines 78-85 applied to any loaded channel at any date: each
\* invocation holds a channel whose syncStageStartedAt and throttleFailureCount
\* are drawn freely, and the date the guard reads is the same for both.

InitThrottle ==
    /\ now \in 0..MaxDate
    /\ store = [id \in {"ch1"} |->
                   StoredChannel(id, PARTIAL_MESSAGE_LIST_FETCH_PENDING, NullTime, 0)]
    /\ messageChannel \in
          [Invocations ->
              {StoredChannel("ch1", PARTIAL_MESSAGE_LIST_FETCH_PENDING, startedAt, failures) :
                  startedAt \in {NullTime} \cup 0..MaxStartedAt, failures \in 0..MaxCount}]
    /\ pc = [p \in Invocations |-> "findOne"]
    /\ data = [p \in Invocations |-> [messageChannelId |-> "ch1", workspaceId |-> WorkspaceId]]
    /\ error = [p \in Invocations |-> NoError]
    /\ trace = [p \in Invocations |-> <<>>]
    /\ handlerCalls = [p \in Invocations |-> <<>>]
    /\ strategyCalls = [p \in Invocations |-> <<>>]
    /\ outcome = [p \in Invocations |-> "pending"]

\* lines 78-85: isThrottled is applied to the fields of the loaded channel
ThrottleGate(p) ==
    /\ pc[p] = "findOne"
    /\ LET skip == isThrottled(messageChannel[p].syncStageStartedAt,
                               messageChannel[p].throttleFailureCount, now)
       IN Continue(p, <<Entry("isThrottled", IF skip THEN "skip" ELSE "pass", NoError)>>,
                   ThrottleBranch(skip))
    /\ UNCHANGED <<now, store, data, messageChannel, strategyCalls>>

NextThrottle == \E p \in Invocations : ThrottleGate(p)

SpecThrottle == InitThrottle /\ [][NextThrottle]_vars

\* ------------------------------------------------- reading an invocation

Finished(p) == pc[p] \in {"done", "threw"}
ChannelFound(p) == messageChannel[p] # NoChannel

\* positions of the trace entries (op, name)
Positions(p, op, name) ==
    {i \in DOMAIN trace[p] : trace[p][i].op = op /\ trace[p][i].name = name}

Count(p, op, name) == Cardinality(Positions(p, op, name))

\* the events handed to the monitoring sink, in order
Events(p) ==
    LET tracked == SelectSeq(trace[p], LAMBDA x : x.op = "track")
    IN [i \in DOMAIN tracked |-> tracked[i].name]

FetchEvents == {EvPartialStarted, EvPartialCompleted, EvFullStarted, EvFullCompleted}

\* the events after message_list_fetch_job.triggered
EventsBeyondTriggered(p) == SelectSeq(Events(p), LAMBDA n : n # EvTriggered)

PartialFetch == "partial.processMessageListFetch"
FullFetch == "full.processMessageListFetch"
RefreshTokens == "refreshAndSaveTokens"
FailureHandler == "handleDriverException"

\* the errors with which calls of `name` rejected
RejectionsOf(p, name) ==
    {trace[p][i].err : i \in Positions(p, "reject", name)}

\* an awaited call of the try block (lines 77-171) rejected
RejectedInTry(p) ==
    \E i \in DOMAIN trace[p] :
        /\ trace[p][i].op = "reject"
        /\ \/ trace[p][i].name \in {RefreshTokens, PartialFetch, FullFetch}
           \/ /\ trace[p][i].name = "track"
              /\ trace[p][i - 1].name \notin {EvTriggered, EvChannelNotFound}

\* the invocation is not inside the inner catch (lines 93-121), where a refresh
\* error waits for the insufficient-permissions event before it is thrown on
PastCatch(p) == pc[p] # "track_insufficient"

\* ------------------------------------------------------------------ C1
\* C1: in an invocation that found its channel, the failure handler is called
\* at most once, and only when an awaited call of the try block (the refresh
\* or the stage dispatch) rejected; every such rejection leads to that one
\* call, and the call carries the error that was thrown, the step marker
\* FULL_OR_PARTIAL_MESSAGE_LIST_FETCH, the loaded channel and the workspace id.
C1_FailureForwardedOnce ==
    \A p \in Invocations :
        ChannelFound(p) =>
            LET rejectedInTry == RejectedInTry(p)
                fetchRejections ==
                    {trace[p][i].err :
                        i \in {j \in DOMAIN trace[p] :
                                  /\ trace[p][j].op = "reject"
                                  /\ trace[p][j].name \in {PartialFetch, FullFetch}}}
            IN /\ Len(handlerCalls[p]) <= 1
               /\ Count(p, "call", FailureHandler) = Len(handlerCalls[p])
               /\ (handlerCalls[p] # <<>>) => rejectedInTry
               /\ (rejectedInTry /\ PastCatch(p)) => Len(handlerCalls[p]) = 1
               /\ (pc[p] = "handler") =>
                     handlerCalls[p] =
                        <<[error |-> error[p],
                           syncStep |-> FULL_OR_PARTIAL_MESSAGE_LIST_FETCH,
                           messageChannel |-> messageChannel[p],
                           workspaceId |-> WorkspaceId]>>
               /\ \A e \in fetchRejections :
                     PastCatch(p) => handlerCalls[p][1].error = e

C1_Witness ==
    \E p \in Invocations :
        /\ pc[p] = "done"
        /\ ChannelFound(p)
        /\ Len(handlerCalls[p]) = 1
        /\ RejectionsOf(p, FullFetch) # {}

\* the position of the one trace entry (op, name)
Pos(p, op, name) == CHOOSE i \in Positions(p, op, name) : TRUE

\* the stage of the channel the invocation loaded
LoadedStage(p) == messageChannel[p].syncStage

\* the one failure-handler call of the invocation carries error e and the step marker
HandlerReceived(p, e) ==
    /\ Len(handlerCalls[p]) = 1
    /\ handlerCalls[p][1].error = e
    /\ handlerCalls[p][1].syncStep = FULL_OR_PARTIAL_MESSAGE_LIST_FETCH

\* ------------------------------------------------------------------ C2
\* C2: in an invocation that loaded a channel in stage
\* PARTIAL_MESSAGE_LIST_FETCH_PENDING, the partial strategy is called at most
\* once and the full strategy never.  Once the strategy has resolved and the
\* completed event has been handed to the sink, the events of the invocation
\* are the trigger, partial started, partial completed, with the strategy call
\* between the two.  If the strategy rejected, the events are the trigger and
\* partial started only, and the strategy's error is what the failure handler
\* receives, with the step marker.  After a successful refresh the started
\* event is emitted once, and the strategy is called once unless the sink
\* rejected that event.  (An event is emitted when handle hands it to the
\* monitoring sink.)
C2_PartialFetchBracketed ==
    \A p \in Invocations :
        (ChannelFound(p) /\ LoadedStage(p) = PARTIAL_MESSAGE_LIST_FETCH_PENDING) =>
            /\ Count(p, "call", PartialFetch) <= 1
            /\ Count(p, "call", FullFetch) = 0
            /\ (Count(p, "resolve", PartialFetch) = 1 /\ pc[p] # "track_partial_completed") =>
                  /\ Events(p) = <<EvTriggered, EvPartialStarted, EvPartialCompleted>>
                  /\ Pos(p, "track", EvPartialStarted) < Pos(p, "call", PartialFetch)
                  /\ Pos(p, "call", PartialFetch) < Pos(p, "resolve", PartialFetch)
                  /\ Pos(p, "resolve", PartialFetch) < Pos(p, "track", EvPartialCompleted)
            /\ \A e \in RejectionsOf(p, PartialFetch) :
                  /\ Events(p) = <<EvTriggered, EvPartialStarted>>
                  /\ PastCatch(p) => HandlerReceived(p, e)
            /\ (Count(p, "resolve", RefreshTokens) = 1 /\ pc[p] \notin {"track_partial_started"}) =>
                  /\ Count(p, "track", EvPartialStarted) = 1
                  /\ Count(p, "call", PartialFetch) = 1 \/ RejectionsOf(p, "track") # {}

\* one invocation completed a partial fetch, the other saw its partial fetch fail
C2_Witness ==
    \E p, q \in Invocations :
        /\ pc[p] = "done" /\ Count(p, "resolve", PartialFetch) = 1
        /\ Events(p) = <<EvTriggered, EvPartialStarted, EvPartialCompleted>>
        /\ pc[q] = "done" /\ RejectionsOf(q, PartialFetch) # {}
        /\ Len(handlerCalls[q]) = 1

\* ------------------------------------------------------------------ C3
\* C3: in an invocation that loaded a channel in stage
\* FULL_MESSAGE_LIST_FETCH_PENDING, the full strategy is called at most once
\* and the partial strategy never.  Once the strategy has resolved and the
\* completed event has been handed to the sink, the events of the invocation
\* are the trigger, full started, full completed, with the strategy call
\* between the two.  If the strategy rejected, the events are the trigger and
\* full started only, and the strategy's error is what the failure handler
\* receives, with the step marker.  After a successful refresh the started
\* event is emitted once, and the strategy is called once unless the sink
\* rejected that event.
C3_FullFetchBracketed ==
    \A p \in Invocations :
        (ChannelFound(p) /\ LoadedStage(p) = FULL_MESSAGE_LIST_FETCH_PENDING) =>
            /\ Count(p, "call", FullFetch) <= 1
            /\ Count(p, "call", PartialFetch) = 0
            /\ (Count(p, "resolve", FullFetch) = 1 /\ pc[p] # "track_full_completed") =>
                  /\ Events(p) = <<EvTriggered, EvFullStarted, EvFullCompleted>>
                  /\ Pos(p, "track", EvFullStarted) < Pos(p, "call", FullFetch)
                  /\ Pos(p, "call", FullFetch) < Pos(p, "resolve", FullFetch)
                  /\ Pos(p, "resolve", FullFetch) < Pos(p, "track", EvFullCompleted)
            /\ \A e \in RejectionsOf(p, FullFetch) :
                  /\ Events(p) = <<EvTriggered, EvFullStarted>>
                  /\ PastCatch(p) => HandlerReceived(p, e)
            /\ (Count(p, "resolve", RefreshTokens) = 1 /\ pc[p] \notin {"track_full_started"}) =>
                  /\ Count(p, "track", EvFullStarted) = 1
                  /\ Count(p, "call", FullFetch) = 1 \/ RejectionsOf(p, "track") # {}

\* one invocation completed a full fetch, the other saw its full fetch fail
C3_Witness ==
    \E p, q \in Invocations :
        /\ pc[p] = "done" /\ Count(p, "resolve", FullFetch) = 1
        /\ Events(p) = <<EvTriggered, EvFullStarted, EvFullCompleted>>
        /\ pc[q] = "done" /\ RejectionsOf(q, FullFetch) # {}
        /\ Len(handlerCalls[q]) = 1

\* ------------------------------------------------------------------ C4
OtherStage(p) ==
    /\ ChannelFound(p)
    /\ LoadedStage(p) \notin {PARTIAL_MESSAGE_LIST_FETCH_PENDING, FULL_MESSAGE_LIST_FETCH_PENDING}

NoFetch(p) ==
    \A i \in DOMAIN trace[p] :
        /\ trace[p][i].op = "track" => trace[p][i].name \notin FetchEvents
        /\ trace[p][i].op = "call" => trace[p][i].name \notin {PartialFetch, FullFetch}

\* C4 as stated: for a channel in any stage other than the two pending ones,
\* the invocation emits no fetch event, calls no fetch strategy and never
\* delegates to the failure handler.
C4_OtherStageNeverDelegates ==
    \A p \in Invocations :
        OtherStage(p) => (NoFetch(p) /\ handlerCalls[p] = <<>>)

\* C4, amended: for a channel in any stage other than the two pending ones,
\* the invocation emits no fetch event and calls no fetch strategy; it
\* delegates to the failure handler exactly when the credential refresh, which
\* runs before the stage switch, failed; when the refresh resolved (or the
\* throttle guard skipped) it returns without delegating.
C4_OtherStageDelegatesOnlyRefreshFailure ==
    \A p \in Invocations :
        OtherStage(p) =>
            /\ NoFetch(p)
            /\ (handlerCalls[p] # <<>>) => RejectionsOf(p, RefreshTokens) # {}
            /\ (RejectionsOf(p, RefreshTokens) # {} /\ PastCatch(p)) =>
                  Len(handlerCalls[p]) = 1
            /\ (Finished(p) /\ RejectionsOf(p, RefreshTokens) = {}) =>
                  (outcome[p] = "returned" /\ handlerCalls[p] = <<>>)

\* an idle channel whose refresh resolved, and one whose refresh failed
C4_Witness ==
    \E p, q \in Invocations :
        /\ OtherStage(p) /\ pc[p] = "done"
        /\ Count(p, "resolve", RefreshTokens) = 1
        /\ OtherStage(q) /\ pc[q] = "done"
        /\ RejectionsOf(q, RefreshTokens) # {} /\ Len(handlerCalls[q]) = 1

\* ------------------------------------------------------------------ C5
\* findOne answered that the channel does not exist
LookupNotFound(p) == Count(p, "call", "findOne") = 1 /\ ~ChannelFound(p)

\* C5: when the lookup finds no channel, the invocation emits exactly one
\* event beyond the trigger, channel_not_found, attempts no refresh, calls no
\* fetch strategy and no failure handler, and handle returns normally.
C5_NotFoundReturnsSuccessfully ==
    \A p \in Invocations :
        (LookupNotFound(p) /\ Finished(p)) =>
            /\ EventsBeyondTriggered(p) = <<EvChannelNotFound>>
            /\ Count(p, "call", RefreshTokens) = 0
            /\ NoFetch(p)
            /\ handlerCalls[p] = <<>>
            /\ outcome[p] = "returned"

\* ------------------------------------------------------------------ C6
\* the throttle guard answered skip
ThrottleSkipped(p) == Count(p, "isThrottled", "skip") = 1

\* C6: when the throttle guard signals skip, the invocation has emitted the
\* trigger event and nothing else, attempts no refresh, calls no fetch
\* strategy and no failure handler, and handle has returned normally.
C6_ThrottledDoesNothing ==
    \A p \in Invocations :
        ThrottleSkipped(p) =>
            /\ Events(p) = <<EvTriggered>>
            /\ Count(p, "call", RefreshTokens) = 0
            /\ NoFetch(p)
            /\ handlerCalls[p] = <<>>
            /\ pc[p] = "done"
            /\ outcome[p] = "returned"

\* a channel in a pending stage, inside its cooldown, is skipped
C6_Witness ==
    \E p \in Invocations :
        /\ ThrottleSkipped(p)
        /\ pc[p] = "done"
        /\ LoadedStage(p) = FULL_MESSAGE_LIST_FETCH_PENDING
        /\ messageChannel[p].throttleFailureCount > 0

\* ------------------------------------------------------------------ C7
\* the category of the table of section 4.3 for a recognized refresh code
TableCategory(code) ==
    CASE code = TEMPORARY_NETWORK_ERROR -> TEMPORARY_ERROR
      [] code = REFRESH_ACCESS_TOKEN_FAILED -> INSUFFICIENT_PERMISSIONS
      [] code = REFRESH_TOKEN_NOT_FOUND -> INSUFFICIENT_PERMISSIONS
      [] code = REFRESH_PROVIDER_NOT_SUPPORTED -> PROVIDER_NOT_SUPPORTED

RecognizedCodes == RefreshCodes \ UnrecognizedCodes

\* C7: for each recognized refresh-failure reason, the error the failure
\* handler receives is a driver exception with the category of the table and
\* the message of the original error.
C7_RecognizedReasonDelivered ==
    \A p \in Invocations :
        \A e \in RejectionsOf(p, RefreshTokens) :
            (e.code \in RecognizedCodes /\ handlerCalls[p] # <<>>) =>
                /\ handlerCalls[p][1].error.class = "MessageImportDriverException"
                /\ handlerCalls[p][1].error.code = TableCategory(e.code)
                /\ handlerCalls[p][1].error.message = e.message

\* ------------------------------------------------------------------ C8
\* C8: a refresh failure is never swallowed: whatever its reason, the failure
\* handler is called (once the error has reached the catch) and no fetch
\* strategy runs and no fetch event is emitted; for an unrecognized reason the
\* handler receives the original error itself, not a wrapped driver exception.
C8_RefreshFailureNeverSwallowed ==
    \A p \in Invocations :
        \A e \in RejectionsOf(p, RefreshTokens) :
            /\ NoFetch(p)
            /\ pc[p] \in {"track_insufficient", "handler", "done", "threw"}
            /\ PastCatch(p) => Len(handlerCalls[p]) = 1
            /\ (PastCatch(p) /\ e.code \in UnrecognizedCodes) =>
                  handlerCalls[p][1].error = e

\* both invocations failed to refresh, for an unrecognized and for a recognized reason
C8_Witness ==
    \E p, q \in Invocations :
        /\ pc[p] = "done" /\ pc[q] = "done"
        /\ \E e \in RejectionsOf(p, RefreshTokens) :
              e.code \in UnrecognizedCodes /\ HandlerReceived(p, e)
        /\ \E e \in RejectionsOf(q, RefreshTokens) :
              e.code \in RecognizedCodes /\ Len(handlerCalls[q]) = 1

\* ------------------------------------------------------------------ C9
InsufficientCodes == {REFRESH_ACCESS_TOKEN_FAILED, REFRESH_TOKEN_NOT_FOUND}

\* C9: when the refresh fails with 'refresh call failed' or 'refresh token
\* missing', exactly one refresh_token.error.insufficient_permissions event is
\* emitted, and it is emitted before the error is on its way to the failure
\* handler and before the handler is called; in every other invocation (no
\* refresh failure, or another reason) that event is never emitted.
C9_InsufficientPermissionsEventOnce ==
    \A p \in Invocations :
        LET insufficient ==
                \E e \in RejectionsOf(p, RefreshTokens) : e.code \in InsufficientCodes
        IN /\ (insufficient /\ PastCatch(p) /\ pc[p] # "track_insufficient") =>
                 /\ Count(p, "track", EvInsufficientPermissions) = 1
                 /\ \A i \in Positions(p, "call", FailureHandler) :
                       Pos(p, "track", EvInsufficientPermissions) < i
           /\ (insufficient /\ pc[p] = "track_insufficient") =>
                 Count(p, "track", EvInsufficientPermissions) = 0
           /\ ~insufficient => Count(p, "track", EvInsufficientPermissions) = 0

\* the wrapped INSUFFICIENT_PERMISSIONS exception reached the handler after the event
C9_Witness ==
    \E p \in Invocations :
        /\ pc[p] = "done"
        /\ Count(p, "track", EvInsufficientPermissions) = 1
        /\ Len(handlerCalls[p]) = 1
        /\ handlerCalls[p][1].error.code = INSUFFICIENT_PERMISSIONS
        /\ handlerCalls[p][1].error.class = "MessageImportDriverException"

\* ----------------------------------------------------------------- C10
\* C10: provided the failure handler does not raise, no error reaches the
\* queue caller: every finished invocation has returned normally.
C10_NothingReachesQueueCaller ==
    \A p \in Invocations :
        (Finished(p) /\ RejectionsOf(p, FailureHandler) = {}) =>
            outcome[p] = "returned"

\* ----------------------------------------------------------------- C11
\* the work of an invocation: a refresh, a fetch-strategy call or an event
IsWork(x) ==
    \/ x.op = "track"
    \/ x.op = "call" /\ x.name \in {RefreshTokens, PartialFetch, FullFetch}

\* C11: in one invocation the credential refresh is called at most once and
\* each fetch strategy at most once, and after the failure handler has been
\* called the invocation performs no further refresh, fetch-strategy call or
\* event emission (and does not call the handler again).
C11_NoRetryWithinRun ==
    [](\A p \in Invocations :
           LET calls == {i \in DOMAIN trace[p] : trace[p][i].op = "call"}
               callsOf(name) == Cardinality({i \in calls : trace[p][i].name = name})
           IN /\ callsOf(RefreshTokens) <= 1
              /\ callsOf(PartialFetch) <= 1
              /\ callsOf(FullFetch) <= 1
              /\ Len(strategyCalls[p]) = callsOf(PartialFetch) + callsOf(FullFetch)
              /\ callsOf(FailureHandler) <= 1
              /\ \A i \in {j \in calls : trace[p][j].name = FailureHandler} :
                    /\ \A j \in (i + 1)..Len(trace[p]) : ~IsWork(trace[p][j])
                    /\ pc[p] \in {"handler", "done", "threw"})

\* a partial fetch failed after a successful refresh, the handler resolved,
\* and handle returned with the handler's resolution as its last step
C11_Witness ==
    \E p \in Invocations :
        /\ pc[p] = "done"
        /\ Count(p, "call", RefreshTokens) = 1
        /\ Count(p, "call", PartialFetch) = 1
        /\ RejectionsOf(p, PartialFetch) # {}
        /\ trace[p][Len(trace[p])] = Entry("resolve", FailureHandler, NoError)

\* ----------------------------------------------------------------- C12
\* the sync fields of a channel
SyncFields(c) == <<c.syncStage, c.syncStageStartedAt, c.throttleFailureCount>>

\* the access token the refresh of the invocation resolved with, if it resolved
Returned(p) == {trace[p][i].name : i \in {j \in DOMAIN trace[p] : trace[p][j].op = "returned"}}

\* the access token of the channel the invocation loaded, if it loaded one
Loaded(p) == {trace[p][i].name : i \in {j \in DOMAIN trace[p] : trace[p][j].op = "loaded"}}

\* C12: no step of handle writes syncStage, syncStageStartedAt or
\* throttleFailureCount: the stored sync fields change only in a step in which
\* a fetch strategy or the failure handler settles, and the sync fields of the
\* object handle holds never change once it is loaded.  The only field handle
\* writes is connectedAccount.accessToken of that object, in the step in which
\* the refresh resolves, with the token it resolved with, and at most once per
\* invocation; the object is left unchanged by every other step (not found,
\* throttle skip, refresh failure included).
C12_OnlyAccessTokenWritten ==
    [][/\ \A id \in DOMAIN store :
             SyncFields(store'[id]) # SyncFields(store[id]) =>
                \E p \in Invocations : pc[p] \in {"partial", "full", "handler"} /\ pc'[p] # pc[p]
       /\ \A p \in Invocations :
             messageChannel'[p] # messageChannel[p] =>
                \/ /\ pc[p] = "findOne"
                   /\ messageChannel[p] = NoChannel
                \/ /\ pc[p] = "refresh"
                   /\ Returned(p) = {}
                   /\ Cardinality(Returned(p)') = 1
                   /\ \E token \in Returned(p)' :
                         messageChannel'[p] =
                            [messageChannel[p] EXCEPT !.connectedAccount.accessToken = token]
      ]_vars

\* a refresh replaced the loaded token "t0" by "t1"; the rest of the object is as loaded
C12_Witness ==
    \E p \in Invocations :
        /\ pc[p] = "done"
        /\ Loaded(p) = {"t0"}
        /\ Returned(p) = {"t1"}
        /\ messageChannel[p].connectedAccount.accessToken = "t1"
        /\ messageChannel[p].connectedAccount.id = "acc1"
        /\ SyncFields(messageChannel[p]) # SyncFields(store[messageChannel[p].id])

\* ----------------------------------------------------------------- C13
\* the throttle guard has answered for the invocation
Decided(p) == Count(p, "isThrottled", "skip") + Count(p, "isThrottled", "pass") = 1

\* C13 (under SpecThrottle): of two decisions of the throttle guard taken at
\* the same date for the same syncStageStartedAt, that is for the same elapsed
\* time, the one with the larger failure count skips whenever the one with the
\* smaller count skips; and the decision depends on the date and on
\* syncStageStartedAt only through the elapsed time: for the same failure count
\* the guard answers the same at every other (syncStageStartedAt, date) with the
\* same difference.
C13_ThrottleMonotonic ==
    /\ \A p, q \in Invocations :
          (/\ Decided(p) /\ Decided(q)
           /\ messageChannel[p].syncStageStartedAt = messageChannel[q].syncStageStartedAt
           /\ messageChannel[p].throttleFailureCount <= messageChannel[q].throttleFailureCount
           /\ ThrottleSkipped(p))
          => ThrottleSkipped(q)
    /\ \A p \in Invocations :
          (Decided(p) /\ messageChannel[p].syncStageStartedAt # NullTime) =>
             \A startedAt \in 0..MaxStartedAt, date \in 0..MaxDate :
                (date - startedAt = now - messageChannel[p].syncStageStartedAt) =>
                   (isThrottled(startedAt, messageChannel[p].throttleFailureCount, date)
                       <=> ThrottleSkipped(p))

\* two skip decisions for the same elapsed time, with one failure and with
\* MaxCount failures, at a date where the pause of one failure is over for a
\* channel that started earlier
C13_Witness ==
    /\ Decided(1) /\ Decided(2)
    /\ ThrottleSkipped(1) /\ ThrottleSkipped(2)
    /\ messageChannel[1].syncStageStartedAt = messageChannel[2].syncStageStartedAt
    /\ messageChannel[1].syncStageStartedAt = MaxStartedAt
    /\ messageChannel[1].throttleFailureCount = 1
    /\ messageChannel[2].throttleFailureCount = MaxCount
    /\ ~isThrottled(0, 1, now)

\* ----------------------------------------------------------------- C14
\* C14: every invocation hands message_list_fetch_job.triggered to the sink
\* exactly once, and it is the first thing the invocation does: nothing is on
\* its trace while that track is awaited, and from then on the first entry of
\* the trace is that event (before the lookup, the throttle check, any refresh
\* and any other event), whatever happens afterwards.
C14_TriggeredOnceFirst ==
    [](\A p \in Invocations :
           /\ pc[p] \in {"idle", "track_triggered"} => trace[p] = <<>>
           /\ pc[p] \notin {"idle", "track_triggered"} =>
                 /\ trace[p] # <<>>
                 /\ trace[p][1] = Entry("track", EvTriggered, NoError)
                 /\ Count(p, "track", EvTriggered) = 1)

\* one invocation did not find its channel, the other found it throttled
C14_Witness ==
    \E p, q \in Invocations :
        /\ pc[p] = "done" /\ LookupNotFound(p)
        /\ Events(p) = <<EvTriggered, EvChannelNotFound>>
        /\ pc[q] = "done" /\ ThrottleSkipped(q)
        /\ Events(q) = <<EvTriggered>>

\* ----------------------------------------------------------------- C15
\* the sink rejected the trigger event
TriggerRejected(p) ==
    /\ Len(trace[p]) >= 2
    /\ trace[p][1] = Entry("track", EvTriggered, NoError)
    /\ trace[p][2] = Entry("reject", "track", SinkError)

\* C15: if the monitoring sink raises while the trigger event is emitted, the
\* invocation still goes on to the channel lookup and no error reaches the
\* queue caller.
C15_TriggerFailureIsNotJobFailure ==
    \A p \in Invocations :
        TriggerRejected(p) =>
            /\ outcome[p] # "threw"
            /\ pc[p] = "findOne" \/ Count(p, "call", "findOne") = 1

\* ----------------------------------------------------------------- C16
PartialEvents == {EvPartialStarted, EvPartialCompleted}
FullEvents == {EvFullStarted, EvFullCompleted}

\* the sink took the event: the track of the event resolved
Taken(p, eventName) ==
    \E i \in Positions(p, "track", eventName) :
        ~(i + 1 \in DOMAIN trace[p] /\ trace[p][i + 1] = Entry("reject", "track", SinkError))

\* the completed event at position i comes after the started event and after
\* the strategy was called and resolved, in that order
Bracketed(p, i, started, fetch) ==
    \E j \in Positions(p, "track", started) :
        \E k \in Positions(p, "call", fetch) :
            \E l \in Positions(p, "resolve", fetch) :
                j < k /\ k < l /\ l < i

\* the names of the entries of each arm of the switch: its events and its strategy
PartialNames == PartialEvents \cup {PartialFetch}
FullNames == FullEvents \cup {FullFetch}

\* the arms of the switch the invocation has been in: those whose events or
\* strategy are on its trace
Arms(p) ==
    {IF trace[p][i].name \in PartialNames THEN "partial" ELSE "full" :
        i \in {j \in DOMAIN trace[p] : trace[p][j].name \in PartialNames \cup FullNames}}

\* when the invocation is over, a started event the sink took, with no
\* completed event taken, means the strategy or the completed track rejected
Unpaired(p, started, fetch, completed) ==
    (Finished(p) /\ Taken(p, started) /\ ~Taken(p, completed)) =>
        \/ RejectionsOf(p, fetch) # {}
        \/ Count(p, "track", completed) = 1 /\ Count(p, "resolve", fetch) = 1

\* C16: one invocation never calls both fetch strategies and never emits
\* events of both the partial and the full family; a completed event is
\* preceded, in the same invocation, by the matching started event and by the
\* strategy call resolving; and at the end of an invocation a started event
\* without a completed event means that the fetch failed or that the emission
\* of the completed event did (an emission that fails leaves no event: here an
\* event is one the sink took).
C16_OneBranchBracketed ==
    [](\A p \in Invocations :
           LET arms == Arms(p)
           IN /\ Cardinality(arms) <= 1
              /\ "partial" \in arms =>
                    /\ \A i \in Positions(p, "track", EvPartialCompleted) :
                          Bracketed(p, i, EvPartialStarted, PartialFetch)
                    /\ Unpaired(p, EvPartialStarted, PartialFetch, EvPartialCompleted)
              /\ "full" \in arms =>
                    /\ \A i \in Positions(p, "track", EvFullCompleted) :
                          Bracketed(p, i, EvFullStarted, FullFetch)
                    /\ Unpaired(p, EvFullStarted, FullFetch, EvFullCompleted))

\* one invocation paired its partial events; in the other the sink took the
\* started event and rejected the completed one after the strategy resolved
C16_Witness ==
    \E p, q \in Invocations :
        /\ pc[p] = "done"
        /\ Taken(p, EvPartialStarted) /\ Taken(p, EvPartialCompleted)
        /\ pc[q] = "done"
        /\ Taken(q, EvPartialStarted) /\ ~Taken(q, EvPartialCompleted)
        /\ Count(q, "resolve", PartialFetch) = 1
        /\ Len(handlerCalls[q]) = 1

\* ----------------------------------------------------------------- C17
\* entry i of the trace of the invocation is (op, name)
Is(p, i, op, name) ==
    i \in DOMAIN trace[p] /\ trace[p][i].op = op /\ trace[p][i].name = name

\* the trace of the invocation begins with the lookup and the not-skip answer
\* of the throttle guard, in that order, after the trigger event and with the
\* loaded token noted in between
Gated(p) ==
    /\ Is(p, 1, "track", EvTriggered)
    /\ Is(p, 2, "call", "findOne")
    /\ Is(p, 4, "isThrottled", "pass")

\* ... and goes on with the refresh, called and resolved
Refreshed(p) ==
    /\ Is(p, 5, "call", RefreshTokens)
    /\ Is(p, 6, "resolve", RefreshTokens)

\* C17: a fetch started event is emitted, and a fetch strategy called, only
\* if earlier in the same invocation the lookup found the channel, then the
\* throttle guard answered not-skip, then the refresh resolved, in that order
\* (and the refresh itself is called only after the lookup and the not-skip
\* answer); and when the refresh fails no fetch event is emitted and no
\* strategy called.
C17_StrictlyGated ==
    [](\A p \in Invocations :
           \A i \in DOMAIN trace[p] :
               LET x == trace[p][i]
                   dispatched == ChannelFound(p) /\ Gated(p) /\ Refreshed(p) /\ i > 6
               IN CASE x.op = "track" ->
                          x.name \in {EvPartialStarted, EvFullStarted} => dispatched
                    [] x.op = "call" ->
                          /\ x.name \in {PartialFetch, FullFetch} => dispatched
                          /\ x.name = RefreshTokens => (ChannelFound(p) /\ Gated(p) /\ i > 4)
                    [] x.op = "reject" ->
                          x.name = RefreshTokens => NoFetch(p)
                    [] OTHER -> TRUE)

\* a full fetch was dispatched after lookup, throttle pass and refresh, for a
\* channel that has failed before and whose pause is over
C17_Witness ==
    \E p \in Invocations :
        /\ pc[p] = "full"
        /\ strategyCalls[p] # <<>>
        /\ messageChannel[p].throttleFailureCount > 0
        /\ messageChannel[p].syncStageStartedAt # NullTime
        /\ Count(p, "isThrottled", "pass") = 1
        /\ Count(p, "resolve", RefreshTokens) = 1

\* ----------------------------------------------------------------- C18
\* invocations p and q work on the same channel, which both loaded in the
\* same pending stage and for which the throttle guard let both pass
SameChannel(p, q) ==
    /\ p # q
    /\ ChannelFound(p) /\ ChannelFound(q)
    /\ messageChannel[p].id = messageChannel[q].id
    /\ LoadedStage(p) = LoadedStage(q)
    /\ Count(p, "isThrottled", "pass") = 1 /\ Count(q, "isThrottled", "pass") = 1

\* C18: nothing keeps an invocation out of a fetch strategy that another
\* invocation is inside for the same channel: whenever one invocation is
\* inside a strategy and the other is about to call the same strategy for the
\* same channel, the call can be made.  (With C18_Witness: a state where both
\* are inside the same strategy for the same channel is reached, so mutual
\* exclusion of in-flight fetches per channel is not an invariant.)
C18_NoMutualExclusion ==
    [](\A p, q \in Invocations :
           /\ (pc[q] = "partial" /\ pc[p] = "track_partial_started" /\ SameChannel(p, q)) =>
                 ENABLED (TrackPartialStarted(p) /\ pc'[p] = "partial")
           /\ (pc[q] = "full" /\ pc[p] = "track_full_started" /\ SameChannel(p, q)) =>
                 ENABLED (TrackFullStarted(p) /\ pc'[p] = "full"))

\* both invocations are inside the partial strategy for channel "ch1"
C18_Witness ==
    /\ SameChannel(1, 2)
    /\ pc[1] = "partial" /\ pc[2] = "partial"
    /\ Len(strategyCalls[1]) = 1 /\ Len(strategyCalls[2]) = 1
    /\ strategyCalls[1][1].messageChannel.id = "ch1"
    /\ strategyCalls[2][1].messageChannel.id = "ch1"
    /\ strategyCalls[1][1].strategy = strategyCalls[2][1].strategy

\* ----------------------------------------------------------------- C19
\* the stage the store held for the channel when the switch of the invocation ran
StoredAtDispatch(p) ==
    {trace[p][i].name : i \in {j \in DOMAIN trace[p] : trace[p][j].op = "stored"}}

\* the positions of handle in and after the arm the switch takes for a stage
ArmPositions(syncStage) ==
    CASE syncStage = PARTIAL_MESSAGE_LIST_FETCH_PENDING ->
            {"track_partial_started", "partial", "track_partial_completed",
             "handler", "done", "threw"}
      [] syncStage = FULL_MESSAGE_LIST_FETCH_PENDING ->
            {"track_full_started", "full", "track_full_completed",
             "handler", "done", "threw"}
      [] OTHER -> {"done"}

\* the started event of the arm the switch takes for a stage
ArmStarted(syncStage) ==
    CASE syncStage = PARTIAL_MESSAGE_LIST_FETCH_PENDING -> {EvPartialStarted}
      [] syncStage = FULL_MESSAGE_LIST_FETCH_PENDING -> {EvFullStarted}
      [] OTHER -> {}

\* C19: the channel is looked up once per invocation, and once the switch has
\* run, the invocation is in the arm of the stage it loaded, and has emitted
\* the started event of that arm and of no other, whatever stage the store
\* held for the channel when the switch ran: a stage changed after the load
\* (by the other invocation's strategy) does not change the arm taken.
C19_DispatchOnLoadedStage ==
    [](\A p \in Invocations :
           /\ Count(p, "call", "findOne") <= 1
           /\ StoredAtDispatch(p) # {} =>
                 LET started == {i \in DOMAIN trace[p] :
                                   /\ trace[p][i].op = "track"
                                   /\ trace[p][i].name \in {EvPartialStarted, EvFullStarted}}
                 IN /\ pc[p] \in ArmPositions(LoadedStage(p))
                    /\ {trace[p][i].name : i \in started} \subseteq ArmStarted(LoadedStage(p))
                    /\ Cardinality(started) =
                          IF ArmStarted(LoadedStage(p)) # {} /\ pc[p] # StageBranch(LoadedStage(p))
                          THEN 1 ELSE 0)

\* the store held MESSAGES_IMPORT_PENDING when the switch ran, the invocation
\* had loaded PARTIAL_MESSAGE_LIST_FETCH_PENDING, and the partial strategy was
\* called with the channel as loaded
C19_Witness ==
    \E p \in Invocations :
        /\ StoredAtDispatch(p) = {MESSAGES_IMPORT_PENDING}
        /\ LoadedStage(p) = PARTIAL_MESSAGE_LIST_FETCH_PENDING
        /\ pc[p] = "partial"
        /\ Len(strategyCalls[p]) = 1
        /\ strategyCalls[p][1].messageChannel.syncStage = PARTIAL_MESSAGE_LIST_FETCH_PENDING

\* ----------------------------------------------------------------- C20
\* C20: whenever a fetch strategy is called, the refresh of the invocation has
\* resolved, and the connected account the strategy receives (as its own
\* argument and through the channel) carries the access token that refresh
\* resolved with; whenever that token differs from the one loaded from the
\* store, the strategy does not receive the loaded one.
C20_StrategyReceivesRefreshedToken ==
    [](\A p \in Invocations :
           strategyCalls[p] # <<>> =>
               LET returned == Returned(p)
                   loaded == Loaded(p)
               IN /\ Cardinality(returned) = 1
                  /\ Cardinality(loaded) = 1
                  /\ \A i \in DOMAIN strategyCalls[p] :
                        LET call == strategyCalls[p][i]
                        IN /\ call.messageChannel.connectedAccount.accessToken \in returned
                           /\ call.connectedAccount.accessToken \in returned
                           /\ returned # loaded =>
                                 /\ call.messageChannel.connectedAccount.accessToken \notin loaded
                                 /\ call.connectedAccount.accessToken \notin loaded)

\* the full strategy was called with token "t1" for a channel loaded with "t0"
C20_Witness ==
    \E p \in Invocations :
        /\ pc[p] = "full"
        /\ Loaded(p) = {"t0"}
        /\ Returned(p) = {"t1"}
        /\ Len(strategyCalls[p]) = 1
        /\ strategyCalls[p][1].strategy = "full"
        /\ strategyCalls[p][1].messageChannel.connectedAccount.accessToken = "t1"

====
